---- MODULE Spec2Model ----
(***************************************************************************)
(* Model of the ingest/export commands of src-tauri/src/main.rs:           *)
(* flatten_object, extract_data_array, parse_json, parse_jsonl and         *)
(* export_json, together with the parts of serde_json they rely on (the    *)
(* Value tree, Map, from_str, to_string, to_string_pretty).                *)
(*                                                                         *)
(* A Rust String is a sequence of one-character strings, so that           *)
(* formatting, escaping and parsing are computed character by character.   *)
(***************************************************************************)
EXTENDS Integers, Sequences, FiniteSets, TLC

VARIABLES
    preserve_order,  \* build of serde_json: Map is an IndexMap (TRUE) or a BTreeMap (FALSE)
    file,            \* the file at file_path: [readable, content]
    cmd,             \* the command that ran last ("none" before the first)
    result,          \* what that command returned: Ok(FileData), Ok(String) or Err(String)
    parsed,          \* parse_json's local `parsed` at return
    data,            \* parse_json's local `data` at return
    all_flat,        \* parse_json's local `all_flat` at return
    table,           \* the (headers, rows) the frontend holds in memory, if any
    exported         \* the (headers, rows) export_json wrote into the file, if it did

vars == <<preserve_order, file, cmd, result, parsed, data, all_flat, table, exported>>

----------------------------------------------------------------------------
(* Strings                                                                 *)

\* The characters the model uses, in code point order (String's Ord is byte-wise).
Alphabet ==
    << "\t", "\n", "\r", " ", "\"", ",", "-", ".", "0", "1", "2", "3", "4", "5",
       "6", "7", "8", "9", ":", "A", "N", "[", "\\", "]", "a", "b", "c", "d",
       "e", "f", "l", "m", "n", "r", "s", "t", "u", "x", "y", "{", "}" >>

Rank(c) == CHOOSE i \in 1..Len(Alphabet) : Alphabet[i] = c

\* s < t for Rust Strings: lexicographic, a proper prefix is smaller.
RECURSIVE StrLess(_, _)
StrLess(s, t) ==
    IF t = <<>> THEN FALSE
    ELSE IF s = <<>> THEN TRUE
    ELSE IF Head(s) = Head(t) THEN StrLess(Tail(s), Tail(t))
    ELSE Rank(Head(s)) < Rank(Head(t))

\* [String]::join(sep)
RECURSIVE Join(_, _)
Join(strs, sep) ==
    IF strs = <<>> THEN <<>>
    ELSE IF Len(strs) = 1 THEN strs[1]
    ELSE strs[1] \o sep \o Join(Tail(strs), sep)

\* str::trim().is_empty(): only white space
IsWs(c) == c \in {" ", "\n", "\t", "\r"}
IsBlank(s) == \A i \in 1..Len(s) : IsWs(s[i])

IsDigit(c) == c \in {"0", "1", "2", "3", "4", "5", "6", "7", "8", "9"}

Name == <<"N", "a", "m", "e">>

----------------------------------------------------------------------------
(* serde_json::Value                                                       *)

\* One record shape for every variant: `s` is the text of a scalar, `items`
\* the elements of an Array or the entries [k, v] of an Object's Map.
Null == [kind |-> "Null", s |-> <<>>, items |-> <<>>]
Bool(b) == [kind |-> "Bool",
            s |-> IF b THEN <<"t", "r", "u", "e">> ELSE <<"f", "a", "l", "s", "e">>,
            items |-> <<>>]
Number(digits) == [kind |-> "Number", s |-> digits, items |-> <<>>]
String(s) == [kind |-> "String", s |-> s, items |-> <<>>]
Array(arr) == [kind |-> "Array", s |-> <<>>, items |-> arr]
Object(map) == [kind |-> "Object", s |-> <<>>, items |-> map]

is_object(v) == v.kind = "Object"
is_array(v) == v.kind = "Array"

\* serde_json::Map: the entries in iteration order, keys unique.
MapKeys(map) == [i \in 1..Len(map) |-> map[i].k]
MapIndex(map, k) ==
    IF \E i \in 1..Len(map) : map[i].k = k
    THEN CHOOSE i \in 1..Len(map) : map[i].k = k
    ELSE 0

\* Map::insert: an existing key keeps its place and gets the new value; a new
\* key goes to the end (IndexMap) or to its sorted place (BTreeMap).
MapInsert(map, k, v) ==
    LET i == MapIndex(map, k)
        e == [k |-> k, v |-> v]
        n == Cardinality({j \in 1..Len(map) : StrLess(map[j].k, k)})
    IN  IF i # 0 THEN [map EXCEPT ![i] = e]
        ELSE IF preserve_order THEN Append(map, e)
        ELSE SubSeq(map, 1, n) \o <<e>> \o SubSeq(map, n + 1, Len(map))

----------------------------------------------------------------------------
(* serde_json::to_string and to_string_pretty                              *)

\* A string literal: quoted, with the quote, the backslash and the control
\* characters escaped.
EscapeChar(c) ==
    CASE c = "\"" -> <<"\\", "\"">>
      [] c = "\\" -> <<"\\", "\\">>
      [] c = "\n" -> <<"\\", "n">>
      [] c = "\r" -> <<"\\", "r">>
      [] c = "\t" -> <<"\\", "t">>
      [] OTHER -> <<c>>

RECURSIVE Escape(_)
Escape(s) == IF s = <<>> THEN <<>> ELSE EscapeChar(Head(s)) \o Escape(Tail(s))

Quoted(s) == <<"\"">> \o Escape(s) \o <<"\"">>

\* Display for Value (Value::to_string): compact JSON text.
RECURSIVE to_string(_)
to_string(v) ==
    CASE v.kind = "Null" -> <<"n", "u", "l", "l">>
      [] v.kind \in {"Bool", "Number"} -> v.s
      [] v.kind = "String" -> Quoted(v.s)
      [] v.kind = "Array" ->
            <<"[">> \o Join([i \in 1..Len(v.items) |-> to_string(v.items[i])], <<",">>)
                    \o <<"]">>
      [] v.kind = "Object" ->
            <<"{">> \o Join([i \in 1..Len(v.items) |->
                                Quoted(v.items[i].k) \o <<":">> \o to_string(v.items[i].v)],
                            <<",">>)
                    \o <<"}">>

Indent(n) == [i \in 1..(2 * n) |-> " "]

\* serde_json::to_string_pretty: two spaces per level, one element per line.
RECURSIVE to_string_pretty(_, _)
to_string_pretty(v, level) ==
    CASE v.kind = "Array" /\ v.items # <<>> ->
            <<"[", "\n">>
            \o Join([i \in 1..Len(v.items) |->
                        Indent(level + 1) \o to_string_pretty(v.items[i], level + 1)],
                    <<",", "\n">>)
            \o <<"\n">> \o Indent(level) \o <<"]">>
      [] v.kind = "Object" /\ v.items # <<>> ->
            <<"{", "\n">>
            \o Join([i \in 1..Len(v.items) |->
                        Indent(level + 1) \o Quoted(v.items[i].k) \o <<":", " ">>
                        \o to_string_pretty(v.items[i].v, level + 1)],
                    <<",", "\n">>)
            \o <<"\n">> \o Indent(level) \o <<"}">>
      [] OTHER -> to_string(v)

----------------------------------------------------------------------------
(* serde_json::from_str                                                    *)

\* A partial result of the parser: the value read and the position after it.
ParseOk(v, pos) == [ok |-> TRUE, val |-> v, pos |-> pos]
ParseErr == [ok |-> FALSE, val |-> Null, pos |-> 0]

RECURSIVE SkipWs(_, _)
SkipWs(t, i) == IF i <= Len(t) /\ IsWs(t[i]) THEN SkipWs(t, i + 1) ELSE i

\* The characters of a string literal from position i (after the opening
\* quote) up to the closing quote; val is the unescaped String.
RECURSIVE ParseStringBody(_, _, _)
ParseStringBody(t, i, acc) ==
    IF i > Len(t) THEN ParseErr
    ELSE IF t[i] = "\"" THEN ParseOk(String(acc), i + 1)
    ELSE IF t[i] = "\\" THEN
        IF i + 1 > Len(t) THEN ParseErr
        ELSE CASE t[i + 1] = "\"" -> ParseStringBody(t, i + 2, Append(acc, "\""))
               [] t[i + 1] = "\\" -> ParseStringBody(t, i + 2, Append(acc, "\\"))
               [] t[i + 1] = "n" -> ParseStringBody(t, i + 2, Append(acc, "\n"))
               [] t[i + 1] = "r" -> ParseStringBody(t, i + 2, Append(acc, "\r"))
               [] t[i + 1] = "t" -> ParseStringBody(t, i + 2, Append(acc, "\t"))
               [] OTHER -> ParseErr
    ELSE IF t[i] \in {"\n", "\r", "\t"} THEN ParseErr  \* raw control character
    ELSE ParseStringBody(t, i + 1, Append(acc, t[i]))

RECURSIVE DigitsEnd(_, _)
DigitsEnd(t, i) == IF i <= Len(t) /\ IsDigit(t[i]) THEN DigitsEnd(t, i + 1) ELSE i

\* An integer: an optional minus sign and digits without a leading zero.
ParseNumber(t, i) ==
    LET d == IF t[i] = "-" THEN i + 1 ELSE i
        e == DigitsEnd(t, d)
    IN  IF e = d \/ (t[d] = "0" /\ e > d + 1) THEN ParseErr
        ELSE ParseOk(Number(SubSeq(t, i, e - 1)), e)

IsAt(t, i, word) == i + Len(word) - 1 <= Len(t) /\ SubSeq(t, i, i + Len(word) - 1) = word

RECURSIVE ParseValue(_, _)
RECURSIVE ParseArrayRest(_, _, _, _)
RECURSIVE ParseObjectRest(_, _, _, _)

\* The elements of an array from position i, after "[" (first) or ",".
ParseArrayRest(t, i, acc, first) ==
    LET j == SkipWs(t, i) IN
    IF j > Len(t) THEN ParseErr
    ELSE IF first /\ t[j] = "]" THEN ParseOk(Array(acc), j + 1)
    ELSE LET r == ParseValue(t, j)
             k == SkipWs(t, r.pos)
         IN  IF ~r.ok \/ k > Len(t) THEN ParseErr
             ELSE IF t[k] = "," THEN ParseArrayRest(t, k + 1, Append(acc, r.val), FALSE)
             ELSE IF t[k] = "]" THEN ParseOk(Array(Append(acc, r.val)), k + 1)
             ELSE ParseErr

\* The members of an object from position i, after "{" (first) or ","; each
\* member is inserted into the Map, so a repeated key keeps its last value.
ParseObjectRest(t, i, map, first) ==
    LET j == SkipWs(t, i) IN
    IF j > Len(t) THEN ParseErr
    ELSE IF first /\ t[j] = "}" THEN ParseOk(Object(map), j + 1)
    ELSE IF t[j] # "\"" THEN ParseErr
    ELSE LET key == ParseStringBody(t, j + 1, <<>>)
             c == SkipWs(t, key.pos)
         IN  IF ~key.ok \/ c > Len(t) THEN ParseErr
             ELSE IF t[c] # ":" THEN ParseErr
             ELSE LET r == ParseValue(t, c + 1)
                      k == SkipWs(t, r.pos)
                      m == MapInsert(map, key.val.s, r.val)
                  IN  IF ~r.ok \/ k > Len(t) THEN ParseErr
                      ELSE IF t[k] = "," THEN ParseObjectRest(t, k + 1, m, FALSE)
                      ELSE IF t[k] = "}" THEN ParseOk(Object(m), k + 1)
                      ELSE ParseErr

ParseValue(t, i) ==
    LET j == SkipWs(t, i) IN
    IF j > Len(t) THEN ParseErr
    ELSE CASE t[j] = "[" -> ParseArrayRest(t, j + 1, <<>>, TRUE)
           [] t[j] = "{" -> ParseObjectRest(t, j + 1, <<>>, TRUE)
           [] t[j] = "\"" -> ParseStringBody(t, j + 1, <<>>)
           [] t[j] = "-" \/ IsDigit(t[j]) -> ParseNumber(t, j)
           [] IsAt(t, j, <<"t", "r", "u", "e">>) -> ParseOk(Bool(TRUE), j + 4)
           [] IsAt(t, j, <<"f", "a", "l", "s", "e">>) -> ParseOk(Bool(FALSE), j + 5)
           [] IsAt(t, j, <<"n", "u", "l", "l">>) -> ParseOk(Null, j + 4)
           [] OTHER -> ParseErr

\* serde_json::from_str::<Value>: one value, then only white space.
from_str(t) ==
    LET r == ParseValue(t, 1) IN
    IF r.ok /\ SkipWs(t, r.pos) > Len(t) THEN r ELSE ParseErr

----------------------------------------------------------------------------
(* flatten_object                                                          *)

Pair(k, v) == [k |-> k, v |-> v]

\* The text of an element of a short array of primitives.
ItemText(v) == IF v.kind = "String" THEN v.s ELSE to_string(v)

\* flatten_object(prefix, value, out): `out` with the pairs of `value` pushed.
\* FlattenEntries is the `for (k, v) in map` loop from entry i on.
RECURSIVE flatten_object(_, _, _)
RECURSIVE FlattenEntries(_, _, _, _)
FlattenEntries(prefix, map, i, out) ==
    IF i > Len(map) THEN out
    ELSE LET key == IF prefix = <<>> THEN map[i].k ELSE prefix \o <<".">> \o map[i].k
         IN  FlattenEntries(prefix, map, i + 1, flatten_object(key, map[i].v, out))

flatten_object(prefix, value, out) ==
    CASE value.kind = "Object" -> FlattenEntries(prefix, value.items, 1, out)
      [] value.kind \in {"String", "Number", "Bool"} -> Append(out, Pair(prefix, value.s))
      [] value.kind = "Null" -> Append(out, Pair(prefix, <<>>))
      [] value.kind = "Array" ->
            LET arr == value.items
                all_primitive ==
                    \A i \in 1..Len(arr) : ~is_object(arr[i]) /\ ~is_array(arr[i])
            IN  IF all_primitive /\ Len(arr) <= 10
                THEN Append(out, Pair(prefix,
                        Join([i \in 1..Len(arr) |-> ItemText(arr[i])], <<",", " ">>)))
                ELSE Append(out, Pair(prefix, to_string(value)))

----------------------------------------------------------------------------
(* extract_data_array                                                      *)

Ok(v) == [ok |-> TRUE, val |-> v, err |-> ""]
Err(msg) == [ok |-> FALSE, val |-> <<>>, err |-> msg]

\* The row of one dictionary entry: "Name" inserted first, then every field
\* of the inner object inserted in its iteration order.
RECURSIVE InsertAll(_, _, _)
InsertAll(row, inner, i) ==
    IF i > Len(inner) THEN row
    ELSE InsertAll(MapInsert(row, inner[i].k, inner[i].v), inner, i + 1)

DictRow(key, inner) == Object(InsertAll(MapInsert(<<>>, Name, String(key)), inner, 1))

\* The `for (key, value) in &map` loop of the dictionary-of-objects branch.
RECURSIVE DictRows(_, _, _)
DictRows(map, i, rows) ==
    IF i > Len(map) THEN rows
    ELSE IF is_object(map[i].v)
         THEN DictRows(map, i + 1, Append(rows, DictRow(map[i].k, map[i].v.items)))
         ELSE DictRows(map, i + 1, rows)

\* The (key, len) of every entry holding a non-empty array whose first
\* element is an object, in iteration order (the filter_map).
RECURSIVE ArrayCandidates(_, _)
ArrayCandidates(map, i) ==
    IF i > Len(map) THEN <<>>
    ELSE LET v == map[i].v
             rest == ArrayCandidates(map, i + 1)
         IN  IF is_array(v) /\ v.items # <<>> /\ is_object(v.items[1])
             THEN <<[key |-> map[i].k, len |-> Len(v.items)]>> \o rest
             ELSE rest

\* Variant: the last candidate, whatever its length.
last_candidate(cands) == Len(cands)

\* Iterator::max_by_key(|(_, len)| *len): the index of the maximum, the last
\* one when several are equally maximum; 0 for an empty iterator.
max_by_key(cands) ==
    IF cands = <<>> THEN 0
    ELSE CHOOSE i \in 1..Len(cands) :
            /\ \A j \in 1..Len(cands) : cands[j].len <= cands[i].len
            /\ \A j \in (i + 1)..Len(cands) : cands[j].len < cands[i].len

\* Variant: more than half of the entries must be objects.
IsDictStrict(obj_value_count, len) == obj_value_count > 1 /\ obj_value_count * 2 > len

\* The test of the dictionary-of-objects pattern.
IsDictOfObjects(obj_value_count, len) == obj_value_count > 1 /\ obj_value_count * 2 >= len

\* Variant: any array is taken as it is.
ArrayRootUnchecked(arr) == Ok(arr)

\* An empty array is rejected.
ArrayRoot(arr) == IF arr = <<>> THEN Err("JSON array is empty") ELSE Ok(arr)

extract_data_array(value) ==
    CASE value.kind = "Array" -> ArrayRoot(value.items)
      [] value.kind = "Object" ->
            LET map == value.items
                obj_value_count == Cardinality({i \in 1..Len(map) : is_object(map[i].v)})
                cands == ArrayCandidates(map, 1)
                best == max_by_key(cands)
            IN  IF IsDictOfObjects(obj_value_count, Len(map))
                THEN Ok(DictRows(map, 1, <<>>))
                ELSE IF best # 0
                THEN Ok(map[MapIndex(map, cands[best].key)].v.items)
                ELSE Ok(<<value>>)
      [] OTHER -> Err("JSON must be an object or an array of objects")

----------------------------------------------------------------------------
(* What a command returns                                                  *)

\* Ok(FileData { headers, rows, row_count, file_type })
FileData(headers, rows, row_count, file_type) ==
    [ok |-> TRUE, error |-> "", line |-> 0, headers |-> headers, rows |-> rows,
     row_count |-> row_count, file_type |-> file_type, message |-> ""]

\* Err(String): the message without the text of the underlying error; `line`
\* is the line number a JSONL parse error names.
Failure(msg, line) ==
    [ok |-> FALSE, error |-> msg, line |-> line, headers |-> <<>>, rows |-> <<>>,
     row_count |-> 0, file_type |-> "", message |-> ""]

\* Ok(String) of an export
Done(msg) ==
    [ok |-> TRUE, error |-> "", line |-> 0, headers |-> <<>>, rows |-> <<>>,
     row_count |-> 0, file_type |-> "", message |-> msg]

NoResult == Done("")

----------------------------------------------------------------------------
(* parse_json                                                              *)

Contains(seq, x) == \E i \in 1..Len(seq) : seq[i] = x

\* The inner loop over one row's pairs: a key not seen yet is pushed.
RECURSIVE CollectHeaders(_, _, _)
CollectHeaders(pairs, i, headers) ==
    IF i > Len(pairs) THEN headers
    ELSE CollectHeaders(pairs, i + 1,
            IF Contains(headers, pairs[i].k) THEN headers ELSE Append(headers, pairs[i].k))

\* The loop over `data`: flatten every item, collect the headers.
RECURSIVE FlattenAll(_, _, _, _)
FlattenAll(items, i, flats, headers) ==
    IF i > Len(items) THEN [all_flat |-> flats, headers |-> headers]
    ELSE LET pairs == flatten_object(<<>>, items[i], <<>>)
         IN  FlattenAll(items, i + 1, Append(flats, pairs), CollectHeaders(pairs, 1, headers))

\* Variant: the headers left in order of first appearance.
KeepOrder(headers) == headers

\* "Name" found at a position > 0 is removed and inserted at position 0.
MoveNameFirst(headers) ==
    IF \E i \in 2..Len(headers) : headers[i] = Name /\ headers[1] # Name
    THEN LET pos == CHOOSE i \in 2..Len(headers) :
                        headers[i] = Name /\ \A j \in 1..(i - 1) : headers[j] # Name
         IN  <<Name>> \o SubSeq(headers, 1, pos - 1) \o SubSeq(headers, pos + 1, Len(headers))
    ELSE headers

\* Variant: the first pair with the key is the one read.
LookupFirst(flat, h) ==
    IF \E i \in 1..Len(flat) : flat[i].k = h
    THEN flat[CHOOSE i \in 1..Len(flat) :
                flat[i].k = h /\ \A j \in 1..(i - 1) : flat[j].k # h].v
    ELSE <<>>

\* The row's HashMap built by collect() (a later pair replaces an earlier one
\* with the same key), read at h; "" when the key is absent.
Lookup(flat, h) ==
    IF \E i \in 1..Len(flat) : flat[i].k = h
    THEN flat[CHOOSE i \in 1..Len(flat) :
                flat[i].k = h /\ \A j \in (i + 1)..Len(flat) : flat[j].k # h].v
    ELSE <<>>

\* Variant: a cell only for the headers the row has a pair for.
AlignRowPresent(flat, headers) ==
    LET present == SelectSeq(headers, LAMBDA h : \E i \in 1..Len(flat) : flat[i].k = h)
    IN  [j \in 1..Len(present) |-> Lookup(flat, present[j])]

\* One row aligned to the headers.
AlignRow(flat, headers) == [j \in 1..Len(headers) |-> Lookup(flat, headers[j])]

\* The command, with its locals at return.
parse_json(f) ==
    LET none == [parsed |-> <<>>, data |-> <<>>, all_flat |-> <<>>]
        doc == from_str(f.content)
        rows_in == extract_data_array(doc.val)
        fl == FlattenAll(rows_in.val, 1, <<>>, <<>>)
        headers == MoveNameFirst(fl.headers)
        rows == [i \in 1..Len(fl.all_flat) |-> AlignRow(fl.all_flat[i], headers)]
    IN  IF ~f.readable
        THEN none @@ [result |-> Failure("Failed to read file", 0)]
        ELSE IF ~doc.ok
        THEN none @@ [result |-> Failure("Failed to parse JSON", 0)]
        ELSE IF ~rows_in.ok
        THEN [none EXCEPT !.parsed = <<doc.val>>] @@ [result |-> Failure(rows_in.err, 0)]
        ELSE [parsed |-> <<doc.val>>, data |-> <<rows_in.val>>, all_flat |-> fl.all_flat,
              result |-> FileData(headers, rows, Len(rows), "JSON")]

----------------------------------------------------------------------------
(* parse_jsonl                                                             *)

\* str::lines(): the text between line feeds, a "\r" before a line feed
\* dropped, and no empty last line.
SplitLines(t) ==
    LET feeds == {i \in 1..Len(t) : t[i] = "\n"}
        starts == {s \in {1} \cup {i + 1 : i \in feeds} : s <= Len(t)}
        nth(k) == CHOOSE s \in starts : Cardinality({x \in starts : x < s}) = k - 1
        stop(s) == IF \E i \in feeds : i >= s
                   THEN CHOOSE i \in feeds : i >= s /\ \A j \in feeds : j >= s => i <= j
                   ELSE Len(t) + 1
        line(s) == IF stop(s) <= Len(t) /\ stop(s) > s /\ t[stop(s) - 1] = "\r"
                   THEN SubSeq(t, s, stop(s) - 2)
                   ELSE SubSeq(t, s, stop(s) - 1)
    IN  [k \in 1..Cardinality(starts) |-> line(nth(k))]

SelectSeqNonBlank(ls) == SelectSeq(ls, LAMBDA l : ~IsBlank(l))

\* content.lines().filter(|l| !l.trim().is_empty())
NonBlankLines(content) == SelectSeqNonBlank(SplitLines(content))

\* The cell of one header in one line's object.
JsonlCell(obj_map, h) ==
    LET i == MapIndex(obj_map, h) IN
    IF i = 0 THEN <<>>
    ELSE LET v == obj_map[i].v
         IN  CASE v.kind \in {"String", "Number", "Bool"} -> v.s
               [] v.kind = "Null" -> <<>>
               [] OTHER -> to_string(v)

\* A line that is no object adds no row.
JsonlRows(rows, obj, headers) ==
    IF is_object(obj)
    THEN Append(rows, [j \in 1..Len(headers) |-> JsonlCell(obj.items, headers[j])])
    ELSE rows

\* The loop `for (i, line) in lines.iter().enumerate()` from line i on.
RECURSIVE JsonlLoop(_, _, _, _)
JsonlLoop(lines, i, headers, rows) ==
    IF i > Len(lines) THEN FileData(headers, rows, Len(rows), "JSONL")
    ELSE LET obj == from_str(lines[i])
         IN  IF ~obj.ok THEN Failure("Failed to parse line", i)
             ELSE JsonlLoop(lines, i + 1, headers, JsonlRows(rows, obj.val, headers))

parse_jsonl(f) ==
    LET lines == NonBlankLines(f.content)
        first_line == from_str(lines[1])
    IN  IF ~f.readable THEN Failure("Failed to read file", 0)
        ELSE IF lines = <<>> THEN Failure("JSONL file is empty", 0)
        ELSE IF ~first_line.ok THEN Failure("Failed to parse first line", 0)
        ELSE IF ~is_object(first_line.val) THEN Failure("JSONL lines must be objects", 0)
        ELSE JsonlLoop(lines, 1, MapKeys(first_line.val.items), <<>>)

----------------------------------------------------------------------------
(* export_json                                                             *)

\* Variant: the last header is left out.
RECURSIVE RowObjectDropLast(_, _, _, _)
RowObjectDropLast(headers, row, i, obj) ==
    IF i >= Len(headers) THEN Object(obj)
    ELSE RowObjectDropLast(headers, row, i + 1,
            IF i <= Len(row) THEN MapInsert(obj, headers[i], String(row[i])) ELSE obj)

\* The object of one row: header i with the row's cell i, where there is one.
RECURSIVE RowObject(_, _, _, _)
RowObject(headers, row, i, obj) ==
    IF i > Len(headers) THEN Object(obj)
    ELSE RowObject(headers, row, i + 1,
            IF i <= Len(row) THEN MapInsert(obj, headers[i], String(row[i])) ELSE obj)

\* The text export_json writes.
export_json(headers, rows) ==
    LET json_array == [i \in 1..Len(rows) |-> RowObject(headers, rows[i], 1, <<>>)]
    IN  to_string_pretty(Array(json_array), 0)

----------------------------------------------------------------------------
(* The inputs: files and tables                                            *)

MaxRows == 2        \* elements of a root array
MaxEntries == 5     \* entries of a root object
MaxLines == 3       \* lines of a JSONL file
MaxExportRows == 2  \* rows of a table handed to export_json

Str(c) == <<c>>
E(k, v) == [k |-> k, v |-> v]

\* Sequences over S of length lo..hi
SeqsOf(S, lo, hi) == UNION {[1..n -> S] : n \in lo..hi}

\* Row values, written in document order.
RowEmpty == Object(<<>>)
RowA == Object(<<E(Str("a"), Number(Str("1")))>>)
RowB == Object(<<E(Str("b"), Number(Str("2")))>>)
RowName == Object(<<E(Str("A"), Null), E(Name, String(Str("n")))>>)
RowDotted ==
    Object(<<E(<<"a", ".", "b">>, Number(Str("1"))),
             E(Str("a"), Object(<<E(Str("b"), Number(Str("2")))>>))>>)
RowNested ==
    Object(<<E(Str("b"), Array(<<Number(Str("1")), String(Str("x"))>>)),
             E(Str("a"), Object(<<E(Str("b"), Object(<<E(Str("c"), Bool(TRUE))>>))>>))>>)
RowArr ==
    Object(<<E(Str("b"), Array(<<Array(<<Number(Str("1"))>>)>>)),
             E(Str("a"), String(Str("x")))>>)
Five == Number(Str("5"))

RowValues == {RowEmpty, RowA, RowB, RowName, RowDotted, RowNested, RowArr, Five}

\* Root arrays of 0..MaxRows elements.
ArrayDocs == {Array(rows) : rows \in SeqsOf(RowValues, 0, MaxRows)}

\* Root objects of 0..MaxEntries entries: the i-th entry of the document has
\* the i-th key of RootKeyOrder and holds an object, an array of one object
\* or an array of two objects; the arrays of different entries differ.
RootKeyOrder ==
    << Str("b"), Str("a"), Str("d"), Str("c"), Str("y"), Str("x"), Str("A"), Str("N") >>
RootKinds == {"object", "array1", "array2"}
RootValue(kind, key) ==
    CASE kind = "object" -> RowA
      [] kind = "array1" -> Array(<<Object(<<E(key, Number(Str("1")))>>)>>)
      [] kind = "array2" -> Array(<<Object(<<E(key, Number(Str("1")))>>), RowEmpty>>)
ObjectDocs ==
    {Object([i \in 1..Len(ks) |-> E(RootKeyOrder[i], RootValue(ks[i], RootKeyOrder[i]))]) :
        ks \in SeqsOf(RootKinds, 0, MaxEntries)}

\* Root objects with entries that are neither objects nor arrays of
\* objects, dictionaries whose bodies have a "Name" of their own, and roots
\* that are scalars.
NoRows == Array(<<Five, RowA, RowB>>)
OtherDocs ==
    { Object(<<E(Str("b"), Five), E(Str("a"), NoRows), E(Str("d"), Array(<<RowA>>)),
               E(Str("c"), Array(<<>>))>>),
      Object(<<E(Str("b"), Five), E(Str("a"), NoRows), E(Str("c"), Null)>>),
      Object(<<E(Str("b"), RowB), E(Str("a"), NoRows), E(Str("d"), RowA)>>),
      Object(<<E(Str("b"), RowName), E(Str("a"), RowA)>>),
      Object(<<E(Str("b"), RowName), E(Str("a"), RowName), E(Str("c"), Five)>>),
      Five, Null, Bool(FALSE), String(Str("x")) }

\* Texts that are no JSON value.
Malformed == { <<>>, <<"{">>, <<"[", "1", ",", "]">>, <<"1", " ", "2">> }

JsonTexts == {to_string(d) : d \in ArrayDocs \cup ObjectDocs \cup OtherDocs} \cup Malformed

\* JSONL files of 0..MaxLines lines.
LineTexts == { to_string(RowArr), to_string(RowName), to_string(Five), <<" ">>, <<"{">> }
JsonlTexts == {Join(ls, <<"\n">>) : ls \in SeqsOf(LineTexts, 0, MaxLines)}

\* Tables the frontend may hold without having read them from the file.
HeaderLists == { <<>>, <<Str("a")>>, <<Str("b"), Str("a")>>, <<Str("a"), Name>>,
                 <<Name, Str("b")>>, <<Str("a"), Str("a")>> }
Cells == { <<>>, <<"\"", "\\">> }
Tables ==
    UNION {[headers : {h}, rows : SeqsOf([1..Len(h) -> Cells], 0, MaxExportRows)] :
            h \in HeaderLists}

----------------------------------------------------------------------------------------------------------------------------------------
(* The commands as steps                                                   *)

NoFile == [readable |-> FALSE, content |-> <<>>]

\* A session starts with a file to open, or with a table already in memory.
Init ==
    /\ preserve_order \in BOOLEAN
    /\ \/ /\ file \in [readable : {TRUE}, content : JsonTexts \cup JsonlTexts] \cup {NoFile}
          /\ table = <<>>
       \/ /\ file = NoFile
          /\ table \in {<<t>> : t \in Tables}
    /\ cmd = "none"
    /\ result = NoResult
    /\ parsed = <<>>
    /\ data = <<>>
    /\ all_flat = <<>>
    /\ exported = <<>>

\* The frontend keeps the FileData of a successful parse.
Loaded(r) == IF r.ok THEN <<[headers |-> r.headers, rows |-> r.rows]>> ELSE table

ParseJson ==
    LET r == parse_json(file) IN
    /\ cmd' = "parse_json"
    /\ result' = r.result
    /\ parsed' = r.parsed
    /\ data' = r.data
    /\ all_flat' = r.all_flat
    /\ table' = Loaded(r.result)
    /\ UNCHANGED <<preserve_order, file, exported>>

ParseJsonl ==
    LET r == parse_jsonl(file) IN
    /\ cmd' = "parse_jsonl"
    /\ result' = r
    /\ parsed' = <<>>
    /\ data' = <<>>
    /\ all_flat' = <<>>
    /\ table' = Loaded(r)
    /\ UNCHANGED <<preserve_order, file, exported>>

\* export_json of the table in memory; fs::write succeeds or fails.
ExportJson ==
    /\ table # <<>>
    /\ cmd' = "export_json"
    /\ parsed' = <<>>
    /\ data' = <<>>
    /\ all_flat' = <<>>
    /\ \/ /\ file' = [readable |-> TRUE,
                      content |-> export_json(table[1].headers, table[1].rows)]
          /\ exported' = table
          /\ result' = Done("Successfully exported")
       \/ /\ result' = Failure("Failed to write file", 0)
          /\ UNCHANGED <<file, exported>>
    /\ UNCHANGED <<preserve_order, table>>

Next == ParseJson \/ ParseJsonl \/ ExportJson

Spec == Init /\ [][Next]_vars

----------------------------------------------------------------------------
(* Vocabulary of the properties                                            *)

NoDup(seq) == \A i, j \in 1..Len(seq) : seq[i] = seq[j] => i = j
Elems(seq) == {seq[i] : i \in 1..Len(seq)}
FirstIndex(seq, x) == CHOOSE i \in 1..Len(seq) : seq[i] = x /\ \A j \in 1..(i - 1) : seq[j] # x

\* The keys of all rows' pairs: rows in order, pairs in order within a row.
RECURSIVE KeysFrom(_, _)
KeysFrom(flats, i) ==
    IF i > Len(flats) THEN <<>>
    ELSE [j \in 1..Len(flats[i]) |-> flats[i][j].k] \o KeysFrom(flats, i + 1)

HasKey(flat, h) == \E p \in 1..Len(flat) : flat[p].k = h

ReturnedTable == cmd \in {"parse_json", "parse_jsonl"} /\ result.ok
ReturnedJsonTable == cmd = "parse_json" /\ result.ok

\* parse_json handed an object root to extract_data_array.
ObjectRoot == cmd = "parse_json" /\ parsed # <<>> /\ is_object(parsed[1])

ObjectEntries(map) == SelectSeq(map, LAMBDA e : is_object(e.v))
Qualifies(v) == is_array(v) /\ v.items # <<>> /\ is_object(v.items[1])
DictionaryRuleApplies(map) ==
    LET k == Len(ObjectEntries(map)) IN k > 1 /\ 2 * k >= Len(map)
Qualifying(map) == {i \in 1..Len(map) : Qualifies(map[i].v)}
Longest(map) ==
    {i \in Qualifying(map) : \A j \in Qualifying(map) : Len(map[j].v.items) <= Len(map[i].v.items)}

FieldOf(row, k) == row.items[MapIndex(row.items, k)].v

\* row is a row synthesized for the dictionary entry e: it has the fields of
\* e's body and "Name"; every field but "Name" has the body's value, and
\* "Name" is e's key when the body has no "Name" of its own.
IsRowOf(row, e) ==
    /\ is_object(row)
    /\ NoDup(MapKeys(row.items))
    /\ Elems(MapKeys(row.items)) = {Name} \cup Elems(MapKeys(e.v.items))
    /\ \A i \in 1..Len(e.v.items) :
            e.v.items[i].k # Name => FieldOf(row, e.v.items[i].k) = e.v.items[i].v
    /\ MapIndex(e.v.items, Name) = 0 => FieldOf(row, Name) = String(e.k)

----------------------------------------------------------------------------
(* C1 *)

\* C1: in every table parse_json or parse_jsonl returns, every row has
\* exactly as many cells as there are headers and row_count is the number
\* of rows.
C1_Rectangular ==
    ReturnedTable =>
        /\ \A i \in 1..Len(result.rows) : Len(result.rows[i]) = Len(result.headers)
        /\ result.row_count = Len(result.rows)

\* A table of parse_json with an empty-object row beside a row with nested values.
C1_Witness ==
    /\ ReturnedJsonTable
    /\ Len(result.headers) >= 2
    /\ \E i, j \in 1..Len(data[1]) :
            /\ data[1][i] = RowEmpty
            /\ is_object(data[1][j])
            /\ \E e \in 1..Len(data[1][j].items) : is_object(data[1][j].items[e].v)

----------------------------------------------------------------------------
(* C2 *)

\* parse_json has read the file export_json wrote from the table `exported`.
ReadBack == cmd = "parse_json" /\ exported # <<>>

\* The table handed to export_json has unique headers and full rows.
WellFormed(t) ==
    /\ NoDup(t.headers)
    /\ \A i \in 1..Len(t.rows) : Len(t.rows[i]) = Len(t.headers)

\* The headers are in the order a Map iterates them.
InMapOrder(h) == preserve_order \/ \A i, j \in 1..Len(h) : i < j => StrLess(h[i], h[j])

SameTable(t) == result.ok /\ result.headers = t.headers /\ result.rows = t.rows

\* C2 as stated: export_json of a table with unique headers and full rows,
\* then parse_json of the file, succeeds with the same headers and rows.
C2_AsStated == (ReadBack /\ WellFormed(exported[1])) => SameTable(exported[1])

\* C2, amended: export_json of a table with at least one row, full rows,
\* and unique headers that are in the Map's iteration order with "Name", if
\* present, first, then parse_json of the file, succeeds with the same
\* headers and rows.
C2_RoundTrip ==
    (/\ ReadBack
     /\ WellFormed(exported[1])
     /\ exported[1].rows # <<>>
     /\ InMapOrder(exported[1].headers)
     /\ \A i \in 1..Len(exported[1].headers) : exported[1].headers[i] = Name => i = 1)
        => SameTable(exported[1])

\* A table of two columns and two rows with a cell to escape, read back.
C2_Witness ==
    /\ ReadBack
    /\ WellFormed(exported[1])
    /\ InMapOrder(exported[1].headers)
    /\ Len(exported[1].headers) = 2
    /\ exported[1].headers[1] = Name
    /\ Len(exported[1].rows) = 2
    /\ exported[1].rows[1][2] = <<"\"", "\\">>
    /\ exported[1].rows[2][2] = <<>>
    /\ SameTable(exported[1])

----------------------------------------------------------------------------
(* C3 *)

\* C3: the headers of a table of parse_json have no duplicates and are the
\* keys of all rows' pairs in order of first appearance, except that "Name",
\* when present, is first and the other headers keep their relative order.
C3_Headers ==
    ReturnedJsonTable =>
        LET keys == KeysFrom(all_flat, 1)
            h == result.headers
        IN  /\ NoDup(h)
            /\ Elems(h) = Elems(keys)
            /\ Name \in Elems(keys) => h[1] = Name
            /\ \A i, j \in 1..Len(h) :
                    (h[i] # Name /\ h[j] # Name) =>
                        (i < j <=> FirstIndex(keys, h[i]) < FirstIndex(keys, h[j]))

\* "Name" first appears after another key, and some key appears twice.
C3_Witness ==
    /\ ReturnedJsonTable
    /\ LET keys == KeysFrom(all_flat, 1)
       IN  /\ Name \in Elems(keys)
           /\ FirstIndex(keys, Name) > 1
           /\ Len(keys) > Len(result.headers)
           /\ Len(result.headers) >= 3

----------------------------------------------------------------------------
(* C4 *)

\* C4 as stated: the cell of row i under header h is a value row i's pairs
\* hold for h, and it is empty exactly when row i has no pair with key h.
C4_AsStated ==
    ReturnedJsonTable =>
        \A i \in 1..Len(result.rows) : \A j \in 1..Len(result.headers) :
            LET flat == all_flat[i]
                h == result.headers[j]
            IN  /\ HasKey(flat, h) =>
                        \E p \in 1..Len(flat) : flat[p].k = h /\ flat[p].v = result.rows[i][j]
                /\ result.rows[i][j] = <<>> <=> ~HasKey(flat, h)

\* C4, amended: the cell of row i under header h is the value of the last
\* pair with key h among row i's own pairs, and it is empty when row i has
\* no pair with key h.
C4_Alignment ==
    ReturnedJsonTable =>
        /\ Len(result.rows) = Len(all_flat)
        /\ \A i \in 1..Len(result.rows) : \A j \in 1..Len(result.headers) :
            LET flat == all_flat[i]
                h == result.headers[j]
            IN  IF HasKey(flat, h)
                THEN \E p \in 1..Len(flat) :
                        /\ flat[p].k = h
                        /\ \A q \in (p + 1)..Len(flat) : flat[q].k # h
                        /\ result.rows[i][j] = flat[p].v
                ELSE result.rows[i][j] = <<>>

\* A sparse table: a row lacks a key another row has, and a row holds two
\* pairs with one key and different values.
C4_Witness ==
    /\ ReturnedJsonTable
    /\ \E i \in 1..Len(all_flat) : \E j \in 1..Len(result.headers) :
            ~HasKey(all_flat[i], result.headers[j])
    /\ \E i \in 1..Len(all_flat) : \E p, q \in 1..Len(all_flat[i]) :
            p < q /\ all_flat[i][p].k = all_flat[i][q].k /\ all_flat[i][p].v # all_flat[i][q].v

----------------------------------------------------------------------------
(* C5 *)

\* C5: for an object root with n entries of which k hold objects, if k > 1
\* and 2k >= n the extracted rows are exactly k, the r-th being the row of
\* the r-th object-valued entry in iteration order (arrays of objects among
\* the entries notwithstanding); otherwise the rows are those of an array
\* of objects among the entries, or else the root itself as the only row.
C5_DictionaryRule ==
    ObjectRoot =>
        LET map == parsed[1].items
            objs == ObjectEntries(map)
        IN  /\ data # <<>>
            /\ IF DictionaryRuleApplies(map)
               THEN /\ Len(data[1]) = Len(objs)
                    /\ \A r \in 1..Len(objs) : IsRowOf(data[1][r], objs[r])
               ELSE IF Qualifying(map) # {}
               THEN \E i \in Qualifying(map) : data[1] = map[i].v.items
               ELSE data[1] = <<parsed[1]>>

\* The dictionary rule applied at its limit (k = 2 of n = 4) to an object
\* that also holds an array of objects.
C5_Witness ==
    /\ ObjectRoot
    /\ DictionaryRuleApplies(parsed[1].items)
    /\ Len(ObjectEntries(parsed[1].items)) = 2
    /\ Len(parsed[1].items) = 4
    /\ Qualifying(parsed[1].items) # {}
    /\ Len(data[1]) = 2

----------------------------------------------------------------------------
(* C6 *)

\* C6 as stated: when the dictionary rule does not apply and some entry
\* qualifies, the rows are the elements of the first, in iteration order,
\* of the qualifying arrays of maximal length.
C6_AsStated ==
    (ObjectRoot /\ ~DictionaryRuleApplies(parsed[1].items) /\ Qualifying(parsed[1].items) # {}) =>
        LET map == parsed[1].items
            first == CHOOSE i \in Longest(map) : \A j \in Longest(map) : i <= j
        IN  data = <<map[first].v.items>>

\* C6, amended: when the dictionary rule does not apply and some entry
\* qualifies, the rows are the elements of the last, in iteration order, of
\* the qualifying arrays of maximal length.
C6_LargestArray ==
    (ObjectRoot /\ ~DictionaryRuleApplies(parsed[1].items) /\ Qualifying(parsed[1].items) # {}) =>
        LET map == parsed[1].items
            last == CHOOSE i \in Longest(map) : \A j \in Longest(map) : j <= i
        IN  data = <<map[last].v.items>>

\* Two different arrays of the maximal length, a shorter one after them.
C6_Witness ==
    /\ ObjectRoot
    /\ ~DictionaryRuleApplies(parsed[1].items)
    /\ LET map == parsed[1].items
       IN  /\ \E i, j \in Longest(map) : i < j /\ map[i].v # map[j].v
           /\ \E i \in Qualifying(map) : i \notin Longest(map) /\ \A j \in Longest(map) : j < i

----------------------------------------------------------------------------
(* C7 *)

\* C7: no pair list of one flatten_object call with the empty prefix holds
\* two pairs with the same key.
C7_UniqueKeys ==
    cmd = "parse_json" =>
        \A i \in 1..Len(all_flat) : NoDup([p \in 1..Len(all_flat[i]) |-> all_flat[i][p].k])

----------------------------------------------------------------------------
(* C8 *)

\* The values of the non-blank lines that are JSON.
LineValues ==
    LET lines == NonBlankLines(file.content)
    IN  {from_str(lines[i]).val : i \in {j \in 1..Len(lines) : from_str(lines[j]).ok}}
AllLinesParse ==
    \A i \in 1..Len(NonBlankLines(file.content)) : from_str(NonBlankLines(file.content)[i]).ok

\* C8: parse_jsonl returns no table of a file with a non-blank line that is
\* a JSON value but no object (it fails, and when every line is JSON the
\* failure is the invalid-shape one); on success row_count is the number of
\* non-blank lines.
C8_NonObjectLine ==
    (cmd = "parse_jsonl" /\ file.readable) =>
        /\ (\E v \in LineValues : ~is_object(v)) =>
                /\ ~result.ok
                /\ AllLinesParse => result.error = "JSONL lines must be objects"
        /\ result.ok => result.row_count = Len(NonBlankLines(file.content))

----------------------------------------------------------------------------
(* C9 *)

\* C9: extract_data_array fails exactly for an empty array root and for a
\* root that is neither array nor object; a non-empty array root yields its
\* elements unchanged, every object root succeeds, every success has at
\* least one row, and no table of parse_json has zero rows.
C9_ExtractOutcome ==
    /\ (cmd = "parse_json" /\ parsed # <<>>) =>
            LET root == parsed[1] IN
            /\ data = <<>> <=>
                    \/ (is_array(root) /\ root.items = <<>>)
                    \/ (~is_array(root) /\ ~is_object(root))
            /\ data = <<>> =>
                    /\ ~result.ok
                    /\ result.error = IF is_array(root)
                                      THEN "JSON array is empty"
                                      ELSE "JSON must be an object or an array of objects"
            /\ (is_array(root) /\ root.items # <<>>) => data = <<root.items>>
            /\ data # <<>> => Len(data[1]) >= 1 /\ result.ok
    /\ ReturnedJsonTable => result.row_count >= 1 /\ Len(result.rows) >= 1

\* The empty object: one row without cells.
C9_Witness ==
    /\ cmd = "parse_json"
    /\ parsed = <<Object(<<>>)>>
    /\ result.ok
    /\ result.row_count = 1
    /\ result.headers = <<>>

----------------------------------------------------------------------------
(* C10 *)

\* C10: when the dictionary rule applies, the "Name" cell of the r-th row
\* of the table is the key of the r-th object-valued entry, also when the
\* entry's body has a "Name" field of its own.
C10_SyntheticNameWins ==
    (ObjectRoot /\ DictionaryRuleApplies(parsed[1].items) /\ result.ok) =>
        LET objs == ObjectEntries(parsed[1].items)
        IN  /\ result.headers[1] = Name
            /\ \A r \in 1..Len(objs) :
                    /\ FieldOf(data[1][r], Name) = String(objs[r].k)
                    /\ result.rows[r][1] = objs[r].k

====
